---- MODULE Spec2Model ----
(***************************************************************************)
(* A model of cli/blocks.py: the Command descriptor and its ordinal        *)
(* allocation, the Commandlet (arity metadata and checked invocation),     *)
(* the Mode dispatch loop with its namespace walk, and the ArgumentParser  *)
(* tokenizer.  Strings are sequences of one-character strings.             *)
(***************************************************************************)
EXTENDS Integers, Sequences, FiniteSets, TLC

VARIABLES
    number_free,        \* Command.number_free
    number_used,        \* Command.number_used
    command_width,      \* Commandlet.command_width
    arguments_width,    \* Commandlet.arguments_width
    registry,           \* the Commandlets created so far, in creation order
    commandlet,         \* the Commandlet under invocation (None before it is built)
    call,               \* the last invocation of commandlet: arguments and outcome
    classes,            \* the classes defined: their __bases__ and the Commandlets of their __dict__
    cls,                \* the class of the Mode instance
    namespace,          \* the instance's namespace
    mode,               \* the run of Mode.__call__: new, running, terminated or raised
    instance,           \* the name and context entries of the Mode instance's __dict__
    prompt,             \* the prompt of the last input() call (None before the first)
    stdin,              \* the lines the input source can deliver to input()
    last,               \* what the last loop iteration (or lookup) read and did
    erred,              \* a diagnostic was printed before the last iteration
    parser,             \* the ArgumentParser instance (its fields)
    line,               \* the argument string of the last parse
    result,             \* the tuple returned by the last parse
    calls               \* number of parses made on the current ArgumentParser instance

regVars == << number_free, number_used, command_width, arguments_width, registry >>

callVars == << commandlet, call >>

parserVars == << parser, line, result, calls >>

modeVars == << classes, cls, namespace, mode, instance, prompt, stdin, last, erred >>

vars == << regVars, callVars, modeVars, parserVars >>

(***************************************************************************)
(* Bounds                                                                  *)
(***************************************************************************)
MaxLen == 4         \* longest generated argument string
MaxReuseLen == 2    \* longest argument string given to a reused parser
MaxCalls == 2       \* parses made on one ArgumentParser instance
MaxCommands == 3    \* Command descriptors created in one run of SpecReg
MaxNumber == 2      \* largest explicit ordinal requested in SpecReg
MaxParams == 2      \* most parameters a generated callable has besides its first
MaxArgs == 4        \* most positional arguments of a generated invocation
MaxClasses == 2     \* classes defined after Mode in SpecNamespace
MaxTail == 1        \* longest generated text after the command name of an input line
MaxTokens == 3      \* most argument tokens of the generated lines of plain tokens

None == "None"

(***************************************************************************)
(* Characters and strings                                                  *)
(***************************************************************************)
Chars == {"a", " ", "\"", "'", "\n", "\t"}

Whitespace == {" ", "\n", "\t"}

QuoteChars == {"\"", "'"}

RECURSIVE SeqsUpTo(_, _)
SeqsUpTo(S, n) ==
    IF n = 0 THEN {<< >>}
    ELSE LET shorter == SeqsUpTo(S, n - 1)
         IN  shorter \cup {Append(s, c) : s \in shorter, c \in S}

TestInput == <<
    " ", "t", "e", "s", "t", " ", "\"", "\"", " ", "\"", "w", "i", "t", "h",
    " ", "s", "p", "a", "c", "e", "\"", " ", " ", " ", "'", "w", "i", "t",
    "h", " ", "\"", "s", "p", "a", "c", "e", " ", "a", "n", "d", " ", "d",
    "i", "f", "f", "e", "r", "e", "n", "t", "\"", " ", "q", "u", "o", "t",
    "e", "'", " ", "c", "a", "s", "e", " " >>

KnownOutput == <<
    << "t", "e", "s", "t" >>,
    << >>,
    << "w", "i", "t", "h", " ", "s", "p", "a", "c", "e" >>,
    << "w", "i", "t", "h", " ", "\"", "s", "p", "a", "c", "e", " ", "a", "n",
       "d", " ", "d", "i", "f", "f", "e", "r", "e", "n", "t", "\"", " ", "q",
       "u", "o", "t", "e" >>,
    << "c", "a", "s", "e" >> >>

CleanInput == << "a", " ", "b", " ", "c" >>

Lines == SeqsUpTo(Chars, MaxLen) \cup {TestInput, CleanInput}

ReuseLines == SeqsUpTo(Chars, MaxReuseLen)

\* str.lstrip(): drop leading whitespace
RECURSIVE LStrip(_)
LStrip(s) ==
    IF s = << >> THEN s
    ELSE IF Head(s) \in Whitespace THEN LStrip(Tail(s)) ELSE s

\* str.rstrip(): drop trailing whitespace
RECURSIVE RStrip(_)
RStrip(s) ==
    IF s = << >> THEN s
    ELSE IF s[Len(s)] \in Whitespace THEN RStrip(SubSeq(s, 1, Len(s) - 1)) ELSE s

\* str.strip()
Strip(s) == RStrip(LStrip(s))

(***************************************************************************)
(* Python values that may be None, an int or a str                         *)
(***************************************************************************)
NoneValue == [type |-> "NoneType"]

IntValue(n) == [type |-> "int", value |-> n]

StrValue(str) == [type |-> "str", value |-> str]

TupleValue(t) == [type |-> "tuple", value |-> t]

Digits == <<"0", "1", "2", "3", "4", "5", "6", "7", "8", "9">>

DigitOf(c) == (CHOOSE d \in 1..10 : Digits[d] = c) - 1

\* int() of a string of decimal digits
RECURSIVE int_of_str(_)
int_of_str(str) ==
    IF str = << >> THEN 0
    ELSE 10 * int_of_str(SubSeq(str, 1, Len(str) - 1)) + DigitOf(str[Len(str)])

\* int(number) as Command.set_number applies it
int(number) ==
    IF number.type = "int" THEN number.value ELSE int_of_str(number.value)

\* ' '.join(strs)
RECURSIVE JoinSpace(_)
JoinSpace(strs) ==
    IF strs = << >> THEN << >>
    ELSE IF Len(strs) = 1 THEN strs[1]
    ELSE strs[1] \o << " " >> \o JoinSpace(Tail(strs))

\* sep.join(strs)
RECURSIVE Join(_, _)
Join(sep, strs) ==
    IF strs = << >> THEN << >>
    ELSE IF Len(strs) = 1 THEN strs[1]
    ELSE strs[1] \o sep \o Join(sep, Tail(strs))

\* str.split(ch) for a one-character separator
RECURSIVE Split(_, _)
Split(str, ch) ==
    IF \A i \in 1..Len(str) : str[i] # ch
    THEN << str >>
    ELSE LET i == CHOOSE k \in 1..Len(str) :
                      str[k] = ch /\ \A j \in 1..(k - 1) : str[j] # ch
         IN  << SubSeq(str, 1, i - 1) >> \o Split(SubSeq(str, i + 1, Len(str)), ch)

\* str.ljust(width)
ljust(str, width) ==
    str \o [i \in 1..(width - Len(str)) |-> " "]

(***************************************************************************)
(* Names                                                                   *)
(***************************************************************************)
Name_self == <<"s", "e", "l", "f">>

Name_this == <<"t", "h", "i", "s">>

Name_help == <<"h", "e", "l", "p">>

Name_exit == <<"e", "x", "i", "t">>

Name_command_name ==
    <<"c", "o", "m", "m", "a", "n", "d", "_", "n", "a", "m", "e">>

Name_a == <<"a">>

Name_b == <<"b">>

Name_ab == <<"a", "b">>

Name_x == <<"x">>

(***************************************************************************)
(* String literals of blocks.py                                            *)
(***************************************************************************)
Str_exceeded == <<
    "e", "x", "c", "e", "e", "d", "e", "d", " ", "m", "a", "x", "i", "m",
    "u", "m", " ", "n", "u", "m", "b", "e", "r", " ", "o", "f", " ", "a",
    "r", "g", "u", "m", "e", "n", "t", "s" >>

Str_not_enough == <<
    "n", "o", "t", " ", "e", "n", "o", "u", "g", "h", " ", "a", "r", "g",
    "u", "m", "e", "n", "t", "s" >>

Str_wrong_keyword == <<
    "w", "r", "o", "n", "g", " ", "k", "e", "y", "w", "o", "r", "d", " ",
    "a", "r", "g", "u", "m", "e", "n", "t", ":", " " >>

Str_incorrect_command == <<
    "I", "n", "c", "o", "r", "r", "e", "c", "t", " ", "c", "o", "m", "m",
    "a", "n", "d", ":", " " >>

Str_incorrect_arguments == <<
    "I", "n", "c", "o", "r", "r", "e", "c", "t", " ", "a", "r", "g", "u",
    "m", "e", "n", "t", "s", " ", "p", "a", "s", "s", "e", "d", ":", " " >>

Str_available == <<
    "A", "v", "a", "i", "l", "a", "b", "l", "e", " ", "c", "o", "m", "m",
    "a", "n", "d", "s", ":" >>

Str_print_this_message == <<
    "P", "r", "i", "n", "t", " ", "t", "h", "i", "s", " ", "m", "e", "s",
    "s", "a", "g", "e" >>

Str_help_annotation == <<
    "S", "p", "e", "c", "i", "f", "i", "e", "s", " ", "c", "o", "m", "m",
    "a", "n", "d", " ", "n", "a", "m", "e", " ", "t", "o", " ", "g", "e",
    "t", " ", "d", "e", "t", "a", "i", "l", "e", "d", " ", "u", "s", "a",
    "g", "e", " ", "i", "n", "f", "o", "r", "m", "a", "t", "i", "o", "n",
    "." >>

Str_help_doc == <<
    "\n", " ", " ", " ", " ", " ", " ", " ", " ", "P", "r", "i", "n", "t",
    "s", " ", "l", "i", "s", "t", " ", "o", "f", " ", "a", "v", "a", "i",
    "l", "a", "b", "l", "e", " ", "c", "o", "m", "m", "a", "n", "d", "s",
    " ", "o", "f", " ", "c", "u", "r", "r", "e", "n", "t", " ", "m", "o",
    "d", "e", ",", " ", "o", "r", " ", "d", "e", "t", "a", "i", "l", "e",
    "d", " ", "c", "o", "m", "m", "a", "n", "d", " ", "i", "n", "f", "o",
    " ", "i", "f", " ", "c", "o", "m", "m", "a", "n", "d", " ", "n", "a",
    "m", "e", " ", "i", "s", " ", "s", "p", "e", "c", "i", "f", "i", "e",
    "d", ".", "\n", " ", " ", " ", " ", " ", " ", " ", " " >>

Str_unnamed == <<"u", "n", "n", "a", "m", "e", "d">>

Str_name == <<
    "N", "a", "m", "e", ":" >>

Str_usage == <<
    "U", "s", "a", "g", "e", ":" >>

Str_arguments == <<
    "A", "r", "g", "u", "m", "e", "n", "t", "s", ":" >>

Str_description == <<
    "D", "e", "s", "c", "r", "i", "p", "t", "i", "o", "n", ":" >>

Str_dash == <<
    " ", "-", " " >>

Str_pad4 == <<
    " ", " ", " ", " " >>

(***************************************************************************)
(* Callables: the attributes of a function object that Commandlet reads    *)
(***************************************************************************)
\* name is __name__, doc is __doc__, annotations is __annotations__ (a
\* sequence of << parameter name, text >> pairs), defaults is __defaults__;
\* qualname tells callables of the same name apart and body names what the
\* callable does when it runs
Function(qualname, name, co_varnames, co_argcount, defaults, doc, annotations, body) ==
    [ qualname    |-> qualname,
      name        |-> name,
      co_varnames |-> co_varnames,
      co_argcount |-> co_argcount,
      defaults    |-> defaults,
      doc         |-> doc,
      annotations |-> annotations,
      body        |-> body ]

\* Mode.help: def help(self, command_name: '...' = ''), with its local
\* variable command
Func_help ==
    Function(<< 2, 1 >>, Name_help,
             << Name_self, Name_command_name, <<"c", "o", "m", "m", "a", "n", "d">> >>,
             2, TupleValue(<< << >> >>), StrValue(Str_help_doc),
             << << Name_command_name, Str_help_annotation >> >>, "help")

\* Mode.exit: def exit(self): raise StopIteration
Func_exit ==
    Function(<< 2, 2 >>, Name_exit, << Name_self >>, 1, NoneValue,
             NoneValue, << >>, "raise StopIteration")

\* the parameter lists of the generated callables: a first parameter named
\* self or this, then a, then b, ...
ParamPool == << Name_a, Name_b, Name_ab, Name_x >>

ParamLists ==
    {<< >>} \cup
    { << r >> \o SubSeq(ParamPool, 1, n) : r \in {Name_self, Name_this}, n \in 0..MaxParams }

\* the generated callables: every parameter list, with and without a local
\* variable after the parameters, with every possible number of defaults
Funcs ==
    UNION { { Function(<< 0, 1 >>, Name_a, ps \o locals, Len(ps), d,
                       NoneValue, << >>, "pass") :
                locals \in {<< >>, << <<"l", "o", "c">> >>},
                d \in {NoneValue} \cup { TupleValue([i \in 1..n |-> << >>]) : n \in 1..Len(ps) } } :
            ps \in ParamLists }

\* the callables decorated in SpecReg
RegFuncs ==
    { Function(<< 0, 1 >>, Name_a, << Name_self >>, 1, NoneValue, NoneValue, << >>, "pass"),
      Function(<< 0, 2 >>, Name_ab, << Name_self, Name_a, Name_b >>, 3,
               TupleValue(<< << >> >>), NoneValue, << >>, "pass") }

(***************************************************************************)
(* Command                                                                 *)
(***************************************************************************)
\* the while loop of Command.set_number
RECURSIVE probe(_, _)
probe(num, used) == IF num \in used THEN probe(num + 1, used) ELSE num

\* Command.set_number: the ordinal returned and Command.number_free after
\* the call (Command.number_used is not written)
set_number(number, free, used) ==
    IF number.type = "NoneType"
    THEN [num |-> probe(free, used), number_free |-> free + 1]
    ELSE [num |-> probe(int(number), used), number_free |-> free]

\* Command.get_command
get_command(command, func) ==
    IF command.type = "NoneType" THEN func.name ELSE command.value

(***************************************************************************)
(* Commandlet                                                              *)
(***************************************************************************)
Min(a, b) == IF a < b THEN a ELSE b

Max(a, b) == IF a < b THEN b ELSE a

\* a plausible slip: the receiver is left out of the maximum while the
\* count of passed arguments still includes it
Commandlet_init_skip_receiver(description, command, number, func) ==
    LET arguments == SubSeq(func.co_varnames, 1, Min(func.co_argcount, Len(func.co_varnames)))
        rest == SubSeq(arguments, 2, Len(arguments))
        arguments_max == Len(rest)
    IN  [ type            |-> "Commandlet",
          description     |-> description,
          command         |-> command,
          number          |-> number,
          func            |-> func,
          func_help       |-> func.doc,
          arguments       |-> arguments,
          arguments_help  |-> func.annotations,
          arguments_usage |-> JoinSpace([i \in 1..Len(rest) |-> << "[" >> \o rest[i] \o << "]" >>]),
          arguments_max   |-> arguments_max,
          arguments_min   |-> IF func.defaults.type = "NoneType"
                              THEN arguments_max
                              ELSE arguments_max - Len(func.defaults.value) ]

\* Commandlet.__init__, the instance fields
Commandlet_init(description, command, number, func) ==
    LET arguments == SubSeq(func.co_varnames, 1, Min(func.co_argcount, Len(func.co_varnames)))
        rest == SubSeq(arguments, 2, Len(arguments))
        arguments_max == Len(arguments)
    IN  [ type            |-> "Commandlet",
          description     |-> description,
          command         |-> command,
          number          |-> number,
          func            |-> func,
          func_help       |-> func.doc,
          arguments       |-> arguments,
          arguments_help  |-> func.annotations,
          arguments_usage |-> JoinSpace([i \in 1..Len(rest) |-> << "[" >> \o rest[i] \o << "]" >>]),
          arguments_max   |-> arguments_max,
          arguments_min   |-> IF func.defaults.type = "NoneType"
                              THEN arguments_max
                              ELSE arguments_max - Len(func.defaults.value) ]

\* Commandlet.__init__, the class field arguments_width after it
grow_arguments_width(width, c) == Max(width, Len(c.arguments_usage))

\* Commandlet.__init__, the class field command_width after it
grow_command_width(width, c) == Max(width, Len(c.command))

\* Command(description, command, number)(func) without the ordinal
\* allocation: Command.__call__
Command_call(description, command, number, func) ==
    Commandlet_init(description, get_command(command, func), number, func)

\* Commandlet.short_help, with the class widths it is padded to
short_help(c, cmd_width, args_width) ==
    << "\t" >> \o ljust(c.command, cmd_width) \o Str_pad4
               \o ljust(c.arguments_usage, args_width) \o Str_pad4 \o c.description

\* dict lookup in __annotations__: the texts stored under the name (none or one)
HelpOf(annotations, arg_name) ==
    { annotations[i][2] : i \in { k \in 1..Len(annotations) : annotations[k][1] = arg_name } }

\* Commandlet.long_help, the Arguments section: the parameters after the
\* receiver that have a help text, padded to the longest such name
ArgumentLines(c) ==
    LET rest == SubSeq(c.arguments, 2, Len(c.arguments))
        helped == SelectSeq(rest, LAMBDA a : HelpOf(c.arguments_help, a) # {})
        arg_width == IF helped = << >> THEN 0
                     ELSE CHOOSE w \in { Len(helped[i]) : i \in 1..Len(helped) } :
                              \A i \in 1..Len(helped) : Len(helped[i]) <= w
    IN  [ i \in 1..Len(helped) |->
            << "\t" >> \o ljust(helped[i], arg_width) \o Str_dash
                       \o (CHOOSE t \in HelpOf(c.arguments_help, helped[i]) : TRUE) ]

\* Commandlet.long_help, the Description section
DescriptionLines(c) ==
    LET doc_lines == Split(Strip(c.func_help.value), "\n")
        stripped == [ i \in 1..Len(doc_lines) |-> Strip(doc_lines[i]) ]
    IN  << << "\t" >> \o Join(<< "\n", "\t" >>, stripped) >>

\* Commandlet.long_help
long_help(c) ==
    LET name_lines ==
            << Str_name,
               IF c.description # << >>
               THEN << "\t" >> \o c.command \o Str_dash \o c.description
               ELSE c.command,
               << >>,
               Str_usage,
               << "\t" >> \o c.command \o << " " >> \o c.arguments_usage >>
        argument_lines ==
            IF c.arguments_help # << >>
            THEN << << >>, Str_arguments >> \o ArgumentLines(c)
            ELSE << >>
        description_lines ==
            IF c.func_help.type = "str" /\ c.func_help.value # << >>
            THEN << << >>, Str_description >> \o DescriptionLines(c)
            ELSE << >>
    IN  Join(<< "\n" >>, name_lines \o argument_lines \o description_lines)

\* raise IncorrectArguments(msg)
IncorrectArguments(msg) == [kind |-> "IncorrectArguments", msg |-> msg]

\* seq has x among its elements
Contains(seq, x) == \E i \in 1..Len(seq) : seq[i] = x

\* the first key of kwargs that is not in arguments
FirstUnknown(kwargs, arguments) ==
    kwargs[CHOOSE i \in 1..Len(kwargs) :
              /\ ~ Contains(arguments, kwargs[i])
              /\ \A j \in 1..(i - 1) : Contains(arguments, kwargs[j])]

\* a plausible slip: the keyword names are looked at before the count
Commandlet_call_keyword_first(c, args, kwargs) ==
    LET arguments_passed == Len(args) + Len(kwargs)
    IN  IF Contains(kwargs, Name_self)
        THEN [kind |-> "TypeError"]
        ELSE IF \E i \in 1..Len(kwargs) : ~ Contains(c.arguments, kwargs[i])
        THEN IncorrectArguments(Str_wrong_keyword \o FirstUnknown(kwargs, c.arguments))
        ELSE IF arguments_passed > c.arguments_max
        THEN IncorrectArguments(Str_exceeded)
        ELSE IF arguments_passed < c.arguments_min
        THEN IncorrectArguments(Str_not_enough)
        ELSE [kind |-> "func", func |-> c.func, args |-> args, kwargs |-> kwargs]

\* Commandlet.__call__(*args, **kwargs): what the call does.  A keyword
\* named self cannot be bound, Python raises TypeError before the body;
\* kind "func" is the evaluation of self.func(*args, **kwargs)
Commandlet_call(c, args, kwargs) ==
    LET arguments_passed == Len(args) + Len(kwargs)
    IN  IF Contains(kwargs, Name_self)
        THEN [kind |-> "TypeError"]
        ELSE IF arguments_passed > c.arguments_max
        THEN IncorrectArguments(Str_exceeded)
        ELSE IF arguments_passed < c.arguments_min
        THEN IncorrectArguments(Str_not_enough)
        ELSE IF \E i \in 1..Len(kwargs) : ~ Contains(c.arguments, kwargs[i])
        THEN IncorrectArguments(Str_wrong_keyword \o FirstUnknown(kwargs, c.arguments))
        ELSE [kind |-> "func", func |-> c.func, args |-> args, kwargs |-> kwargs]


(***************************************************************************)
(* ArgumentParser                                                          *)
(***************************************************************************)
\* ArgumentParser.__init__
ArgumentParser_init ==
    [ tokens     |-> {" ", "\"", "'", "\n"},
      curr_token |-> None,
      prev_token |-> None,
      buffer     |-> << >>,
      arguments  |-> << >>,
      quote      |-> None ]

\* ArgumentParser.change_token
change_token(p, new_token) ==
    [p EXCEPT !.prev_token = p.curr_token, !.curr_token = new_token]

\* ArgumentParser.flush_buffer: the parser after the flush (the returned
\* data is the buffer before it)
flush_buffer(p) == [p EXCEPT !.buffer = << >>]

\* a plausible slip: the quote-preceded branch is lost, empty data is never
\* appended
process_token_drop_empty(p0, symbol) ==
    LET p == change_token(p0, symbol)
        data == p.buffer
    IN  IF p.curr_token \in {" ", "\n"}
        THEN IF data # << >>
             THEN [flush_buffer(p) EXCEPT !.arguments = Append(p.arguments, data)]
             ELSE flush_buffer(p)
        ELSE IF p.curr_token \in QuoteChars
        THEN IF p.quote = None
             THEN [p EXCEPT !.quote = p.curr_token]
             ELSE [p EXCEPT !.quote = None]
        ELSE p

\* a plausible slip: the emptiness test is lost, every flush appends
process_token_keep_empty(p0, symbol) ==
    LET p == change_token(p0, symbol)
        data == p.buffer
    IN  IF p.curr_token \in {" ", "\n"}
        THEN [flush_buffer(p) EXCEPT !.arguments = Append(p.arguments, data)]
        ELSE IF p.curr_token \in QuoteChars
        THEN IF p.quote = None
             THEN [p EXCEPT !.quote = p.curr_token]
             ELSE [p EXCEPT !.quote = None]
        ELSE p

\* ArgumentParser.process_token
process_token(p0, symbol) ==
    LET p == change_token(p0, symbol)
        data == p.buffer
    IN  IF p.curr_token \in {" ", "\n"}
        THEN IF p.prev_token # None /\ p.prev_token \in QuoteChars
             THEN [flush_buffer(p) EXCEPT !.arguments = Append(p.arguments, data)]
             ELSE IF data # << >>
                  THEN [flush_buffer(p) EXCEPT !.arguments = Append(p.arguments, data)]
                  ELSE flush_buffer(p)
        ELSE IF p.curr_token \in QuoteChars
        THEN IF p.quote = None
             THEN [p EXCEPT !.quote = p.curr_token]
             ELSE [p EXCEPT !.quote = None]
        ELSE p

\* the body of the for loop of ArgumentParser.__call__, for one symbol
consume(p, symbol) ==
    IF p.quote # None
    THEN IF symbol = p.quote
         THEN process_token(p, symbol)
         ELSE [p EXCEPT !.buffer = Append(p.buffer, symbol)]
    ELSE IF symbol \in p.tokens
    THEN process_token(p, symbol)
    ELSE [p EXCEPT !.buffer = Append(p.buffer, symbol)]

\* the for loop of ArgumentParser.__call__ over the symbols s[i..j], in order
\* (the range is halved, and the first half is evaluated before the second
\* is entered, only to keep the evaluation shallow)
RECURSIVE feed_range(_, _, _, _)
feed_range(p, s, i, j) ==
    IF i > j THEN p
    ELSE IF i = j THEN consume(p, s[i])
    ELSE LET m == (i + j) \div 2
             q == feed_range(p, s, i, m)
         IN  IF DOMAIN q = DOMAIN p THEN feed_range(q, s, m + 1, j) ELSE q

\* the parser after the for loop has consumed the first k symbols of s
feed_to(p, s, k) == feed_range(p, s, 1, k)

\* the whole for loop of ArgumentParser.__call__ over the symbols of s
feed(p, s) == feed_to(p, s, Len(s))

\* a plausible slip: the trailing process_token('\n') is lost
ArgumentParser_call_without_newline(p, argument_string) ==
    feed(p, Strip(argument_string))

\* ArgumentParser.__call__: the parser after the call; the returned tuple is
\* its arguments field
ArgumentParser_call(p, argument_string) ==
    process_token(feed(p, Strip(argument_string)), "\n")

\* ArgumentParser()(s), a parse on a new instance
parse(s) == ArgumentParser_call(ArgumentParser_init, s).arguments

(***************************************************************************)
(* Definition time: @Command(description, command, number) def func        *)
(***************************************************************************)
\* the class fields before anything is defined (the class bodies of Command
\* and Commandlet)
ClassFields ==
    [ number_free     |-> 0,
      number_used     |-> {},
      command_width   |-> 0,
      arguments_width |-> 0,
      registry        |-> << >> ]

\* Command(description, command, number)(func): Command.__init__ with
\* set_number, then Command.__call__ with Commandlet.__init__
Decorate(st, description, command, number, func) ==
    LET sn == set_number(number, st.number_free, st.number_used)
        c  == Command_call(description, command, sn.num, func)
    IN  [ number_free     |-> sn.number_free,
          number_used     |-> st.number_used,
          command_width   |-> grow_command_width(st.command_width, c),
          arguments_width |-> grow_arguments_width(st.arguments_width, c),
          registry        |-> Append(st.registry, c) ]

\* the class fields once blocks.py is loaded: the class body of Mode has
\* defined help with number=998 and exit with number='999'
ModuleLoaded ==
    Decorate(Decorate(ClassFields, Str_print_this_message, NoneValue, IntValue(998), Func_help),
             << >>, NoneValue, StrValue(<<"9", "9", "9">>), Func_exit)

Mode_help == ModuleLoaded.registry[1]

Mode_exit == ModuleLoaded.registry[2]

RegState ==
    [ number_free     |-> number_free,
      number_used     |-> number_used,
      command_width   |-> command_width,
      arguments_width |-> arguments_width,
      registry        |-> registry ]

SetRegState(st) ==
    /\ number_free' = st.number_free
    /\ number_used' = st.number_used
    /\ command_width' = st.command_width
    /\ arguments_width' = st.arguments_width
    /\ registry' = st.registry

InitModule ==
    /\ number_free = ModuleLoaded.number_free
    /\ number_used = ModuleLoaded.number_used
    /\ command_width = ModuleLoaded.command_width
    /\ arguments_width = ModuleLoaded.arguments_width
    /\ registry = ModuleLoaded.registry

(***************************************************************************)
(* Classes: object, Mode and the classes defined after them                *)
(***************************************************************************)
ObjectId == 1

ModeId == 2

\* a class: its __bases__ (class ids) and the Commandlets of its __dict__,
\* in definition order
Class(bases, dict) == [bases |-> bases, dict |-> dict]

\* object and Mode, as blocks.py defines them
BaseClasses ==
    << Class(<< >>, << >>),
       Class(<< ObjectId >>, << Mode_help, Mode_exit >>) >>

\* c and every class c derives from
RECURSIVE Ancestors(_, _)
Ancestors(table, c) ==
    {c} \cup UNION { Ancestors(table, table[c].bases[i]) : i \in 1..Len(table[c].bases) }

\* the base lists Python accepts for a new class: one or two classes, and
\* with two the first is not a class the second derives from
ValidBases(table) ==
    { << b >> : b \in 1..Len(table) }
        \cup { bb \in (1..Len(table)) \X (1..Len(table)) :
                    bb[1] # bb[2] /\ bb[1] \notin Ancestors(table, bb[2]) }

\* the method definitions of the generated class bodies, for the class with
\* id k: a(self, a, b=''), exit(self) that returns, a second method
\* registered under the command name a, b(self) that calls next() on an
\* exhausted iterator, b(self) that raises ValueError, b(self, a) that sets
\* self.name and ab(self, a) that sets self.context
Declarations(k) ==
    [ a    |-> [ command |-> NoneValue,
                 func    |-> Function(<< k, 1 >>, Name_a, << Name_self, Name_a, Name_b >>, 3,
                                      TupleValue(<< << >> >>), NoneValue, << >>, "pass") ],
      exit |-> [ command |-> NoneValue,
                 func    |-> Function(<< k, 2 >>, Name_exit, << Name_self >>, 1,
                                      NoneValue, NoneValue, << >>, "pass") ],
      a2   |-> [ command |-> StrValue(Name_a),
                 func    |-> Function(<< k, 3 >>, Name_x, << Name_self >>, 1,
                                      NoneValue, NoneValue, << >>, "pass") ],
      stop   |-> [ command |-> NoneValue,
                   func    |-> Function(<< k, 4 >>, Name_b, << Name_self >>, 1,
                                        NoneValue, NoneValue, << >>, "next(iter(()))") ],
      fail   |-> [ command |-> NoneValue,
                   func    |-> Function(<< k, 5 >>, Name_b, << Name_self >>, 1,
                                        NoneValue, NoneValue, << >>, "raise ValueError") ],
      rename |-> [ command |-> NoneValue,
                   func    |-> Function(<< k, 6 >>, Name_b, << Name_self, Name_a >>, 2,
                                        NoneValue, NoneValue, << >>, "self.name = a") ],
      enter  |-> [ command |-> NoneValue,
                   func    |-> Function(<< k, 7 >>, Name_ab, << Name_self, Name_a >>, 2,
                                        NoneValue, NoneValue, << >>, "self.context = a") ] ]

\* the generated class bodies: which methods are defined, in which order
ClassBodies ==
    { << >>, << "a" >>, << "exit" >>, << "a2" >>, << "a", "exit" >>, << "a2", "a" >> }

\* the class fields after the decorators of a class body have run, from
\* its p-th definition on
RECURSIVE DefineBody(_, _, _, _)
DefineBody(st, k, body, p) ==
    IF p > Len(body) THEN st
    ELSE LET d == Declarations(k)[body[p]]
         IN  DefineBody(Decorate(st, << >>, d.command, NoneValue, d.func), k, body, p + 1)

\* class <k>(bases): body
DefineClass(pr, bases, body) ==
    LET k  == Len(pr.classes) + 1
        st == DefineBody(pr.reg, k, body, 1)
        n  == Len(pr.reg.registry)
    IN  [ reg     |-> st,
          classes |-> Append(pr.classes,
                             Class(bases, SubSeq(st.registry, n + 1, Len(st.registry)))) ]

\* the programs that define n classes after Mode
RECURSIVE Programs(_)
Programs(n) ==
    IF n = 0
    THEN { [reg |-> ModuleLoaded, classes |-> BaseClasses] }
    ELSE UNION { { DefineClass(pr, bases, body) :
                        bases \in ValidBases(pr.classes), body \in ClassBodies } :
                 pr \in Programs(n - 1) }

\* the classes of a table that a Mode instance can be made of
ModeClasses(table) == { c \in 1..Len(table) : ModeId \in Ancestors(table, c) }

(***************************************************************************)
(* Mode                                                                    *)
(***************************************************************************)
\* Commandlet.__eq__
Commandlet_eq(c, other) == c.command = other.command

\* value in namespace (list membership by __eq__)
InNamespace(ns, value) == \E i \in 1..Len(ns) : Commandlet_eq(ns[i], value)

\* a plausible slip: the membership test is lost
add_items_unchecked(ns, dict) == ns \o dict

\* Mode.build_namespace, the loop of get_commandlets over cls.__dict__.items()
RECURSIVE add_items(_, _)
add_items(ns, dict) ==
    IF dict = << >> THEN ns
    ELSE add_items(IF InNamespace(ns, Head(dict)) THEN ns ELSE Append(ns, Head(dict)),
                   Tail(dict))

\* Mode.build_namespace, get_commandlets(cls) and its loop over cls.__bases__
RECURSIVE get_commandlets(_, _, _)
RECURSIVE walk_bases(_, _, _)
get_commandlets(table, c, ns) ==
    walk_bases(table, table[c].bases, add_items(ns, table[c].dict))

walk_bases(table, bases, ns) ==
    IF bases = << >> THEN ns
    ELSE walk_bases(table, Tail(bases), get_commandlets(table, Head(bases), ns))

\* Mode.build_namespace
build_namespace(table, c) == get_commandlets(table, c, << >>)

\* raise IncorrectCommand(msg)
IncorrectCommand(msg) == [type |-> "IncorrectCommand", msg |-> msg]

\* Mode.lookup_command: the first Commandlet of the namespace with the
\* command name, or the IncorrectCommand raised
lookup_command(ns, command_input) ==
    IF \E i \in 1..Len(ns) : ns[i].command = command_input
    THEN ns[CHOOSE i \in 1..Len(ns) :
                /\ ns[i].command = command_input
                /\ \A j \in 1..(i - 1) : ns[j].command # command_input]
    ELSE IncorrectCommand(command_input)

\* an entry the instance's __dict__ does not have
Absent == [type |-> "absent"]

\* the __dict__ of a new Mode instance, as far as get_user_input reads it
EmptyDict == [name |-> Absent, context |-> Absent]

\* a plausible slip: the context is tested for presence, not for truth
get_prompt_with_any_context(dict) ==
    LET name == IF dict.name = Absent THEN Str_unnamed ELSE dict.name.value
    IN  IF dict.context # Absent
        THEN name \o << "(" >> \o dict.context.value \o << ")", ":", " " >>
        ELSE name \o << ":", " " >>

\* Mode.get_user_input, the prompt it builds from the instance's __dict__
get_prompt(dict) ==
    LET name == IF dict.name = Absent THEN Str_unnamed ELSE dict.name.value
        context == IF dict.context = Absent THEN NoneValue ELSE dict.context
    IN  IF context.type = "str" /\ context.value # << >>
        THEN name \o << "(" >> \o context.value \o << ")", ":", " " >>
        ELSE name \o << ":", " " >>

\* Mode.get_user_input for the line that input() returns
get_user_input(input_line) ==
    LET user_input == Strip(input_line)
        words == Split(user_input, " ")
    IN  [ command_name |-> words[1],
          arguments    |-> parse(JoinSpace(Tail(words))) ]

\* a plausible slip: the listing is left in namespace order
sorted_in_namespace_order(ns) == ns

\* sorted(namespace, key=lambda x: x.number): a stable sort
RECURSIVE sorted_by_number(_)
sorted_by_number(ns) ==
    IF ns = << >> THEN << >>
    ELSE LET i == CHOOSE k \in 1..Len(ns) :
                      /\ \A j \in 1..Len(ns) : ns[k].number <= ns[j].number
                      /\ \A j \in 1..(k - 1) : ns[j].number # ns[k].number
         IN  << ns[i] >> \o sorted_by_number(SubSeq(ns, 1, i - 1) \o SubSeq(ns, i + 1, Len(ns)))

\* Mode.help: the strings it prints
Mode_help_body(ns, command_name, cmd_width, args_width) ==
    IF command_name = << >>
    THEN LET listing == sorted_by_number(ns)
         IN  << Str_available >>
                \o [ i \in 1..Len(listing) |-> short_help(listing[i], cmd_width, args_width) ]
                \o << << >> >>
    ELSE LET command == lookup_command(ns, command_name)
         IN  IF command.type = "IncorrectCommand"
             THEN << Str_incorrect_command \o command.msg, << >> >>
             ELSE << long_help(command), << >> >>

\* no exception
NoException == [kind |-> "none"]

\* a plausible slip: help sorts self.namespace in place
run_func_sorting_in_place(func, arguments, ns, dict, cmd_width, args_width) ==
    IF func.body = "help"
    THEN [ printed   |-> Mode_help_body(ns, IF arguments = << >> THEN << >> ELSE arguments[1],
                                        cmd_width, args_width),
           raised    |-> NoException,
           namespace |-> sorted_by_number(ns),
           dict      |-> dict ]
    ELSE IF func.body \in {"raise StopIteration", "next(iter(()))"}
    THEN [ printed |-> << >>, raised |-> [kind |-> "StopIteration"],
           namespace |-> ns, dict |-> dict ]
    ELSE IF func.body = "raise ValueError"
    THEN [ printed |-> << >>, raised |-> [kind |-> "ValueError"],
           namespace |-> ns, dict |-> dict ]
    ELSE IF func.body = "self.name = a"
    THEN [ printed |-> << >>, raised |-> NoException,
           namespace |-> ns, dict |-> [dict EXCEPT !.name = StrValue(arguments[1])] ]
    ELSE IF func.body = "self.context = a"
    THEN [ printed |-> << >>, raised |-> NoException,
           namespace |-> ns, dict |-> [dict EXCEPT !.context = StrValue(arguments[1])] ]
    ELSE [ printed |-> << >>, raised |-> NoException, namespace |-> ns, dict |-> dict ]

\* what running the callable of a Commandlet does, given the arguments after
\* the receiver: the strings it prints, the exception it raises, and the
\* namespace and __dict__ entries it leaves on the instance
run_func(func, arguments, ns, dict, cmd_width, args_width) ==
    IF func.body = "help"
    THEN [ printed   |-> Mode_help_body(ns, IF arguments = << >> THEN << >> ELSE arguments[1],
                                        cmd_width, args_width),
           raised    |-> NoException,
           namespace |-> ns,
           dict      |-> dict ]
    ELSE IF func.body \in {"raise StopIteration", "next(iter(()))"}
    THEN [ printed |-> << >>, raised |-> [kind |-> "StopIteration"],
           namespace |-> ns, dict |-> dict ]
    ELSE IF func.body = "raise ValueError"
    THEN [ printed |-> << >>, raised |-> [kind |-> "ValueError"],
           namespace |-> ns, dict |-> dict ]
    ELSE IF func.body = "self.name = a"
    THEN [ printed |-> << >>, raised |-> NoException,
           namespace |-> ns, dict |-> [dict EXCEPT !.name = StrValue(arguments[1])] ]
    ELSE IF func.body = "self.context = a"
    THEN [ printed |-> << >>, raised |-> NoException,
           namespace |-> ns, dict |-> [dict EXCEPT !.context = StrValue(arguments[1])] ]
    ELSE [ printed |-> << >>, raised |-> NoException, namespace |-> ns, dict |-> dict ]

\* a plausible slip: the Commandlet is called without the instance
try_block_without_receiver(ns, dict, command_name, arguments, cmd_width, args_width) ==
    LET command == lookup_command(ns, command_name)
        outcome == Commandlet_call(command, arguments, << >>)
        run == run_func(command.func, arguments, ns, dict, cmd_width, args_width)
    IN  IF command.type = "IncorrectCommand"
        THEN [ ran |-> << >>, printed |-> << >>,
               raised |-> [kind |-> "IncorrectCommand", msg |-> command.msg],
               namespace |-> ns, dict |-> dict ]
        ELSE IF outcome.kind # "func"
        THEN [ ran |-> << >>, printed |-> << >>, raised |-> outcome,
               namespace |-> ns, dict |-> dict ]
        ELSE [ ran |-> << command.func.qualname >>, printed |-> run.printed,
               raised |-> run.raised, namespace |-> run.namespace, dict |-> run.dict ]

\* the try block of Mode.__call__: lookup_command, then command(self,
\* *arguments): which callable ran, what was printed, the exception raised
try_block(ns, dict, command_name, arguments, cmd_width, args_width) ==
    LET command == lookup_command(ns, command_name)
        outcome == Commandlet_call(command, << "mode" >> \o arguments, << >>)
        run == run_func(command.func, Tail(outcome.args), ns, dict, cmd_width, args_width)
    IN  IF command.type = "IncorrectCommand"
        THEN [ ran |-> << >>, printed |-> << >>,
               raised |-> [kind |-> "IncorrectCommand", msg |-> command.msg],
               namespace |-> ns, dict |-> dict ]
        ELSE IF outcome.kind # "func"
        THEN [ ran |-> << >>, printed |-> << >>, raised |-> outcome,
               namespace |-> ns, dict |-> dict ]
        ELSE [ ran |-> << command.func.qualname >>, printed |-> run.printed,
               raised |-> run.raised, namespace |-> run.namespace, dict |-> run.dict ]

\* a plausible slip: the input errors end the loop as StopIteration does
except_clauses_break_on_error(raised) ==
    IF raised.kind = "none"
    THEN [ printed |-> << >>, ends |-> "continue" ]
    ELSE IF raised.kind = "IncorrectCommand"
    THEN [ printed |-> << Str_incorrect_command \o raised.msg >>, ends |-> "break" ]
    ELSE IF raised.kind = "IncorrectArguments"
    THEN [ printed |-> << Str_incorrect_arguments \o raised.msg >>, ends |-> "break" ]
    ELSE IF raised.kind = "StopIteration"
    THEN [ printed |-> << >>, ends |-> "break" ]
    ELSE [ printed |-> << >>, ends |-> "raise" ]

\* a plausible slip: StopIteration is swallowed and the loop goes on
except_clauses_ignore_stop(raised) ==
    IF raised.kind = "none"
    THEN [ printed |-> << >>, ends |-> "continue" ]
    ELSE IF raised.kind = "IncorrectCommand"
    THEN [ printed |-> << Str_incorrect_command \o raised.msg >>, ends |-> "continue" ]
    ELSE IF raised.kind = "IncorrectArguments"
    THEN [ printed |-> << Str_incorrect_arguments \o raised.msg >>, ends |-> "continue" ]
    ELSE IF raised.kind = "StopIteration"
    THEN [ printed |-> << >>, ends |-> "continue" ]
    ELSE [ printed |-> << >>, ends |-> "raise" ]

\* the except clauses of Mode.__call__: what is printed for the exception
\* the try block raised and how the iteration ends (continue: the next
\* iteration; break: the loop ends; raise: the exception leaves __call__)
except_clauses(raised) ==
    IF raised.kind = "none"
    THEN [ printed |-> << >>, ends |-> "continue" ]
    ELSE IF raised.kind = "IncorrectCommand"
    THEN [ printed |-> << Str_incorrect_command \o raised.msg >>, ends |-> "continue" ]
    ELSE IF raised.kind = "IncorrectArguments"
    THEN [ printed |-> << Str_incorrect_arguments \o raised.msg >>, ends |-> "continue" ]
    ELSE IF raised.kind = "StopIteration"
    THEN [ printed |-> << >>, ends |-> "break" ]
    ELSE [ printed |-> << >>, ends |-> "raise" ]

\* one iteration of the while loop of Mode.__call__, for the line that
\* input() returns
Mode_iteration(ns, dict, input_line, cmd_width, args_width) ==
    LET inp == get_user_input(input_line)
        try == try_block(ns, dict, inp.command_name, inp.arguments, cmd_width, args_width)
        handled == except_clauses(try.raised)
    IN  [ type         |-> "iteration",
          prompt       |-> get_prompt(dict),
          namespace    |-> try.namespace,
          dict         |-> try.dict,
          line         |-> input_line,
          command_name |-> inp.command_name,
          arguments    |-> inp.arguments,
          ran          |-> try.ran,
          raised       |-> try.raised.kind,
          printed      |-> try.printed \o handled.printed,
          ends         |-> handled.ends ]

InitIdle ==
    /\ commandlet = NoneValue
    /\ call = NoneValue
    /\ classes = BaseClasses
    /\ cls = ModeId
    /\ namespace = << >>
    /\ mode = "new"
    /\ instance = EmptyDict
    /\ prompt = NoneValue
    /\ stdin = {}
    /\ last = NoneValue
    /\ erred = FALSE
    /\ parser = ArgumentParser_init
    /\ line = << >>
    /\ result = << >>
    /\ calls = 0

\* the ordinals a descriptor is created with: omitted, an int, or a string
NumberRequests ==
    {NoneValue} \cup { IntValue(n) : n \in 0..MaxNumber } \cup { StrValue(<< "1" >>) }

(***************************************************************************)
(* Specification SpecReg: commands are defined one after another           *)
(***************************************************************************)
InitReg == InitModule /\ InitIdle

\* @Command(description, command, number) def func
Define ==
    /\ Len(registry) < Len(ModuleLoaded.registry) + MaxCommands
    /\ \E command \in {NoneValue, StrValue(Name_b)}, number \in NumberRequests, func \in RegFuncs :
            SetRegState(Decorate(RegState, << >>, command, number, func))
    /\ UNCHANGED << callVars, modeVars, parserVars >>

NextReg == Define

SpecReg == InitReg /\ [][NextReg]_vars

(***************************************************************************)
(* Specification SpecCommandlet: one Commandlet is built from a callable   *)
(* and then invoked                                                        *)
(***************************************************************************)
InitCommandlet == InitModule /\ InitIdle

\* @Command() def func, for any callable
Construct ==
    /\ commandlet.type = "NoneType"
    /\ \E func \in Funcs :
            LET st == Decorate(RegState, << >>, NoneValue, NoneValue, func)
            IN  /\ SetRegState(st)
                /\ commandlet' = st.registry[Len(st.registry)]
    /\ UNCHANGED << call, modeVars, parserVars >>

\* the positional arguments of an invocation: the receiver first
ArgLists == { [i \in 1..n |-> IF i = 1 THEN "mode" ELSE "x"] : n \in 0..MaxArgs }

\* the keyword names of an invocation, in the order they are passed
KeywordNames == {Name_self, Name_this, Name_a, Name_b, Name_x}

KeywordLists ==
    {<< >>} \cup { << k >> : k \in KeywordNames }
            \cup { kk \in KeywordNames \X KeywordNames : kk[1] # kk[2] }

\* commandlet(*args, **kwargs)
Invoke ==
    /\ commandlet.type = "Commandlet"
    /\ \E args \in ArgLists, kwargs \in KeywordLists :
            call' = [ type    |-> "call",
                      args    |-> args,
                      kwargs  |-> kwargs,
                      outcome |-> Commandlet_call(commandlet, args, kwargs) ]
    /\ UNCHANGED << regVars, commandlet, modeVars, parserVars >>

NextCommandlet == Construct \/ Invoke

SpecCommandlet == InitCommandlet /\ [][NextCommandlet]_vars

(***************************************************************************)
(* Specification SpecNamespace: classes are defined, a Mode instance of    *)
(* one of them builds its namespace and looks commands up                  *)
(***************************************************************************)
InitNamespace ==
    /\ \E pr \in Programs(MaxClasses) :
            /\ number_free = pr.reg.number_free
            /\ number_used = pr.reg.number_used
            /\ command_width = pr.reg.command_width
            /\ arguments_width = pr.reg.arguments_width
            /\ registry = pr.reg.registry
            /\ classes = pr.classes
            /\ cls \in ModeClasses(pr.classes)
    /\ commandlet = NoneValue
    /\ call = NoneValue
    /\ namespace = << >>
    /\ mode = "new"
    /\ instance = EmptyDict
    /\ prompt = NoneValue
    /\ stdin = {}
    /\ last = NoneValue
    /\ erred = FALSE
    /\ parser = ArgumentParser_init
    /\ line = << >>
    /\ result = << >>
    /\ calls = 0

\* Mode.__call__, its first statement: self.build_namespace()
Start ==
    /\ mode = "new"
    /\ namespace' = build_namespace(classes, cls)
    /\ mode' = "running"
    /\ UNCHANGED << regVars, callVars, classes, cls, instance, prompt, stdin, last, erred,
                    parserVars >>

\* the command names looked up
LookupNames == {Name_a, Name_exit, Name_help, Name_x}

\* self.lookup_command(name)
Lookup ==
    /\ mode = "running"
    /\ \E name \in LookupNames :
            last' = [ type |-> "lookup", command_name |-> name,
                      found |-> lookup_command(namespace, name) ]
    /\ UNCHANGED << regVars, callVars, classes, cls, namespace, mode, instance, prompt, stdin,
                    erred, parserVars >>

NextNamespace == Start \/ Lookup

SpecNamespace == InitNamespace /\ [][NextNamespace]_vars

(***************************************************************************)
(* Specification SpecMode: a Mode instance, of Mode or of a class derived  *)
(* from it, runs its loop over input lines                                 *)
(***************************************************************************)
\* the first words of the input lines: registered names, an unregistered
\* name and no name at all
CommandWords == {Name_exit, Name_help, Name_a, Name_b, Name_x, << >>}

\* n tokens a, each after a space
RECURSIVE PlainTokens(_)
PlainTokens(n) == IF n = 0 THEN << >> ELSE PlainTokens(n - 1) \o << " ", "a" >>

\* the input lines: a word, then nothing, or a space and a text, or some
\* plain tokens
InputLines ==
    { w \o t : w \in CommandWords,
               t \in {<< >>} \cup { << " " >> \o u : u \in SeqsUpTo({"a", " ", "\""}, MaxTail) }
                             \cup { PlainTokens(n) : n \in 0..MaxTokens } }

\* the class bodies whose commands raise
LoopBodies == { << "stop" >>, << "fail" >> }

\* the programs of SpecMode: Mode alone, one class of the generated bodies,
\* and one class derived from Mode with a body of LoopBodies
ModePrograms ==
    Programs(0) \cup Programs(1)
        \cup { DefineClass(pr, << ModeId >>, body) : pr \in Programs(0), body \in LoopBodies }

InitMode ==
    /\ \E pr \in ModePrograms :
            /\ number_free = pr.reg.number_free
            /\ number_used = pr.reg.number_used
            /\ command_width = pr.reg.command_width
            /\ arguments_width = pr.reg.arguments_width
            /\ registry = pr.reg.registry
            /\ classes = pr.classes
            /\ cls = Len(pr.classes)
            /\ cls \in ModeClasses(pr.classes)
    /\ commandlet = NoneValue
    /\ call = NoneValue
    /\ namespace = << >>
    /\ mode = "new"
    /\ instance = EmptyDict
    /\ prompt = NoneValue
    /\ stdin = InputLines
    /\ last = NoneValue
    /\ erred = FALSE
    /\ parser = ArgumentParser_init
    /\ line = << >>
    /\ result = << >>
    /\ calls = 0

\* one iteration of the while loop: input() returns a line
Iterate ==
    /\ mode = "running"
    /\ \E input_line \in stdin :
            LET it == Mode_iteration(namespace, instance, input_line,
                                     command_width, arguments_width)
            IN  /\ last' = it
                /\ prompt' = StrValue(it.prompt)
                /\ namespace' = it.namespace
                /\ instance' = it.dict
                /\ mode' = CASE it.ends = "continue" -> "running"
                             [] it.ends = "break"    -> "terminated"
                             [] OTHER                -> "raised"
                /\ erred' = (erred \/ (last.type = "iteration" /\ last.printed # << >>
                                            /\ last.ran = << >>))
    /\ UNCHANGED << regVars, callVars, classes, cls, stdin, parserVars >>

\* input() raises EOFError: no except clause of the loop covers the read
ReadEOF ==
    /\ mode = "running"
    /\ prompt' = StrValue(get_prompt(instance))
    /\ last' = [ type |-> "eof", raised |-> "EOFError" ]
    /\ mode' = "raised"
    /\ UNCHANGED << regVars, callVars, classes, cls, namespace, instance, stdin, erred,
                    parserVars >>

NextMode == Start \/ Iterate \/ ReadEOF

SpecMode == InitMode /\ [][NextMode]_vars

(***************************************************************************)
(* Specification SpecDispatch: a Mode instance of any class of a hierarchy *)
(* runs its loop over lines that list, describe and run commands           *)
(***************************************************************************)
\* the lines typed: help alone, with an empty, a registered and an
\* unregistered name; commands with and without an argument
DispatchLines ==
    { Name_help, Name_help \o << " ", "\"", "\"" >>, Name_help \o << " " >> \o Name_a,
      Name_help \o << " " >> \o Name_x, Name_a, Name_a \o << " " >> \o Name_a,
      Name_exit, Name_x }

\* the programs that define two classes derived from Mode and a third
\* derived from both
Diamonds ==
    { DefineClass(DefineClass(DefineClass([reg |-> ModuleLoaded, classes |-> BaseClasses],
                                          << ModeId >>, b1),
                              << ModeId >>, b2),
                  << ModeId + 1, ModeId + 2 >>, b3) :
        b1 \in ClassBodies, b2 \in ClassBodies, b3 \in ClassBodies }

InitDispatch ==
    /\ \E pr \in Programs(MaxClasses) \cup Diamonds :
            /\ number_free = pr.reg.number_free
            /\ number_used = pr.reg.number_used
            /\ command_width = pr.reg.command_width
            /\ arguments_width = pr.reg.arguments_width
            /\ registry = pr.reg.registry
            /\ classes = pr.classes
            /\ cls \in ModeClasses(pr.classes)
    /\ commandlet = NoneValue
    /\ call = NoneValue
    /\ namespace = << >>
    /\ mode = "new"
    /\ instance = EmptyDict
    /\ prompt = NoneValue
    /\ stdin = DispatchLines
    /\ last = NoneValue
    /\ erred = FALSE
    /\ parser = ArgumentParser_init
    /\ line = << >>
    /\ result = << >>
    /\ calls = 0

SpecDispatch == InitDispatch /\ [][NextMode]_vars

(***************************************************************************)
(* Specification SpecPrompt: a Mode instance whose commands set its name   *)
(* and its context runs its loop                                           *)
(***************************************************************************)
\* the lines typed: b and ab with a token, a longer token, an empty token
\* and no token, and lines that change nothing
PromptLines ==
    { w \o t : w \in {Name_b, Name_ab},
               t \in { << >>, << " ", "a" >>, << " ", "a", "a" >>, << " ", "\"", "\"" >> } }
        \cup { Name_help, Name_x, Name_exit }

\* class <3>(Mode) with the commands b and ab
PromptProgram ==
    DefineClass([reg |-> ModuleLoaded, classes |-> BaseClasses], << ModeId >>,
                << "rename", "enter" >>)

InitPrompt ==
    /\ number_free = PromptProgram.reg.number_free
    /\ number_used = PromptProgram.reg.number_used
    /\ command_width = PromptProgram.reg.command_width
    /\ arguments_width = PromptProgram.reg.arguments_width
    /\ registry = PromptProgram.reg.registry
    /\ classes = PromptProgram.classes
    /\ cls = Len(PromptProgram.classes)
    /\ commandlet = NoneValue
    /\ call = NoneValue
    /\ namespace = << >>
    /\ mode = "new"
    /\ instance = EmptyDict
    /\ prompt = NoneValue
    /\ stdin = PromptLines
    /\ last = NoneValue
    /\ erred = FALSE
    /\ parser = ArgumentParser_init
    /\ line = << >>
    /\ result = << >>
    /\ calls = 0

SpecPrompt == InitPrompt /\ [][NextMode]_vars

(***************************************************************************)
(* Specification SpecParser: every parse runs on a new ArgumentParser, as  *)
(* in Mode.get_user_input and in TestArgumentParser.setUp                  *)
(***************************************************************************)
InitParser ==
    /\ InitModule
    /\ commandlet = NoneValue
    /\ call = NoneValue
    /\ classes = BaseClasses
    /\ cls = ModeId
    /\ namespace = << >>
    /\ mode = "new"
    /\ instance = EmptyDict
    /\ prompt = NoneValue
    /\ stdin = {}
    /\ last = NoneValue
    /\ erred = FALSE
    /\ parser = ArgumentParser_init
    /\ line \in Lines
    /\ result = << >>
    /\ calls = 0

\* ArgumentParser()(line)
ParseFresh ==
    /\ calls = 0
    /\ parser' = ArgumentParser_call(parser, line)
    /\ result' = parser'.arguments
    /\ calls' = 1
    /\ UNCHANGED << line, regVars, callVars, modeVars >>

NextParser == ParseFresh

SpecParser == InitParser /\ [][NextParser]_vars

(***************************************************************************)
(* Specification SpecReuse: one ArgumentParser instance parses several     *)
(* strings, as a caller holding the instance can do                        *)
(***************************************************************************)
InitReuse == InitModule /\ InitIdle

\* parser = ArgumentParser()
NewParser ==
    /\ calls > 0
    /\ parser' = ArgumentParser_init
    /\ calls' = 0
    /\ UNCHANGED << line, result, regVars, callVars, modeVars >>

\* parser(l) on the instance held
ParseAgain ==
    /\ calls < MaxCalls
    /\ \E l \in ReuseLines :
        LET p == ArgumentParser_call(parser, l)
        IN  /\ parser' = p
            /\ line' = l
            /\ result' = p.arguments
            /\ calls' = calls + 1
    /\ UNCHANGED << regVars, callVars, modeVars >>

NextReuse == NewParser \/ ParseAgain

SpecReuse == InitReuse /\ [][NextReuse]_vars

(***************************************************************************)
(* Command and Commandlet properties                                       *)
(***************************************************************************)
\* C1: no two Commandlets share an ordinal, whatever mix of omitted and
\* explicit numbers their descriptors were created with.
C1_NoSharedOrdinal ==
    \A i, j \in 1..Len(registry) :
        i # j => registry[i].number # registry[j].number

\* the number of arguments an invocation passes
Passed(c) == Len(c.args) + Len(c.kwargs)

\* the invocation entered Commandlet.__call__ (its arguments could be bound)
Entered(c) == c.type = "call" /\ c.outcome.kind # "TypeError"

\* C4: the count of positional plus named arguments is checked against
\* [arguments_min, arguments_max] before anything else: above the maximum
\* the invocation fails with 'exceeded maximum number of arguments', below
\* the minimum with 'not enough arguments', and the callable is not invoked.
C4_ArityCheckedFirst ==
    Entered(call) =>
        /\ Passed(call) > commandlet.arguments_max
            => call.outcome = IncorrectArguments(Str_exceeded)
        /\ Passed(call) < commandlet.arguments_min
            => call.outcome = IncorrectArguments(Str_not_enough)
        /\ call.outcome.kind = "func"
            => /\ Passed(call) >= commandlet.arguments_min
               /\ Passed(call) <= commandlet.arguments_max

\* C4 witness: too many arguments, one of them under a name the callable
\* does not declare, and the invocation fails on the count
C4_Witness ==
    /\ Entered(call)
    /\ Passed(call) > commandlet.arguments_max
    /\ \E i \in 1..Len(call.kwargs) : ~ Contains(commandlet.arguments, call.kwargs[i])
    /\ call.outcome.kind = "IncorrectArguments"

\* the number of default values of a callable
DefaultCount(func) ==
    IF func.defaults.type = "NoneType" THEN 0 ELSE Len(func.defaults.value)

\* C5 as stated: min <= max, max is the declared parameter count minus one
\* (the receiver excluded), and min is max minus the number of defaults.
C5_MaxExcludesReceiver ==
    commandlet.type = "Commandlet" =>
        /\ commandlet.arguments_min <= commandlet.arguments_max
        /\ commandlet.arguments_max = commandlet.func.co_argcount - 1
        /\ commandlet.arguments_min = commandlet.arguments_max - DefaultCount(commandlet.func)

\* C5 amended: min <= max, max is the declared parameter count with the
\* receiver included, and min is max minus the number of defaults.
C5_MaxIsParameterCount ==
    commandlet.type = "Commandlet" =>
        /\ commandlet.arguments_min <= commandlet.arguments_max
        /\ commandlet.arguments_max = commandlet.func.co_argcount
        /\ commandlet.arguments_min = commandlet.arguments_max - DefaultCount(commandlet.func)

\* C5 witness: a Commandlet built from a callable that has a receiver, a
\* parameter with a default and a local variable
C5_Witness ==
    /\ commandlet.type = "Commandlet"
    /\ commandlet.func.co_argcount >= 2
    /\ Len(commandlet.func.co_varnames) > commandlet.func.co_argcount
    /\ DefaultCount(commandlet.func) >= 1
    /\ commandlet.arguments_min < commandlet.arguments_max

\* the keyword names of an invocation that are not declared parameters
\* other than the receiver
UndeclaredKeys(c, kwargs) ==
    { kwargs[i] : i \in 1..Len(kwargs) } \
        { c.arguments[i] : i \in 2..Len(c.arguments) }

\* C6: with the count within arity, an invocation that has a named key
\* which is not a declared parameter other than the receiver fails with the
\* unknown-argument error naming such a key, and the callable is invoked
\* only when every named key is a declared parameter other than the receiver.
C6_UndeclaredKeyRejected ==
    ( /\ Entered(call)
      /\ Passed(call) >= commandlet.arguments_min
      /\ Passed(call) <= commandlet.arguments_max )
    => /\ UndeclaredKeys(commandlet, call.kwargs) # {}
            => \E k \in UndeclaredKeys(commandlet, call.kwargs) :
                    call.outcome = IncorrectArguments(Str_wrong_keyword \o k)
       /\ call.outcome.kind = "func"
            => UndeclaredKeys(commandlet, call.kwargs) = {}

(***************************************************************************)
(* Mode properties                                                         *)
(***************************************************************************)
\* the last iteration read a line whose first word is no command name of
\* the namespace
NotFound ==
    /\ last.type = "iteration"
    /\ \A i \in 1..Len(namespace) : namespace[i].command # last.command_name

\* the last iteration read a line whose first word is a command name and
\* whose argument count (the receiver counted in) is outside the arity of
\* the first namespace entry of that name
ArityError ==
    /\ last.type = "iteration"
    /\ \E i \in 1..Len(namespace) :
            /\ namespace[i].command = last.command_name
            /\ \A j \in 1..(i - 1) : namespace[j].command # last.command_name
            /\ \/ Len(last.arguments) + 1 > namespace[i].arguments_max
               \/ Len(last.arguments) + 1 < namespace[i].arguments_min

\* str has no newline
OneLine(str) == \A i \in 1..Len(str) : str[i] # "\n"

\* C2: in the running loop, a line whose command name matches no namespace
\* entry, or whose argument count is outside the arity of the command it
\* resolves to, prints one one-line diagnostic, runs no command body and
\* leaves the loop running, at every iteration and after earlier errors.
C2_InputErrorsAreRecoverable ==
    (NotFound \/ ArityError) =>
        /\ Len(last.printed) = 1
        /\ OneLine(last.printed[1])
        /\ NotFound => last.printed[1] = Str_incorrect_command \o last.command_name
        /\ ArityError => \/ last.printed[1] = Str_incorrect_arguments \o Str_exceeded
                         \/ last.printed[1] = Str_incorrect_arguments \o Str_not_enough
        /\ last.ran = << >>
        /\ mode = "running"

\* C2 witness: a not-found diagnostic in an iteration that follows an
\* iteration with a diagnostic
C2_Witness ==
    /\ NotFound
    /\ erred
    /\ Len(last.printed) = 1
    /\ mode = "running"

\* the callable of Mode.exit ran in the last iteration
ExitRan == last.type = "iteration" /\ last.ran = << Func_exit.qualname >>

\* C3: from every running state the exit command ends the loop: a line
\* that is the word exit alone, resolved to Mode's exit, runs it; once it
\* ran the Mode is terminated and the iteration printed nothing; and a
\* terminated Mode takes no further step (reads no further line).
C3_ExitEndsLoop ==
    /\ [] ( /\ ( /\ last.type = "iteration"
                 /\ last.command_name = Name_exit
                 /\ last.arguments = << >>
                 /\ lookup_command(namespace, Name_exit) = Mode_exit ) => ExitRan
            /\ ExitRan => (mode = "terminated" /\ last.printed = << >>) )
    /\ [][mode # "terminated"]_vars

\* C3 witness: exit ended the loop of a Mode with more than the two
\* built-in commands, after an earlier diagnostic
C3_Witness ==
    /\ ExitRan
    /\ mode = "terminated"
    /\ erred
    /\ Len(namespace) > 2

\* the command names declared on the class c or on a class it derives from
DeclaredNames(table, c) ==
    UNION { { table[k].dict[i].command : i \in 1..Len(table[k].dict) } :
            k \in Ancestors(table, c) }

\* C7: the namespace built for an instance holds every command name
\* declared on its class or on an ancestor exactly once: no two entries
\* have the same command name and no declared name is missing.
C7_NamespaceNamesOnce ==
    mode = "running" =>
        /\ \A i, j \in 1..Len(namespace) :
                i # j => namespace[i].command # namespace[j].command
        /\ { namespace[i].command : i \in 1..Len(namespace) } = DeclaredNames(classes, cls)

\* C7 witness: a namespace built for a class with two bases, where the
\* command name a is declared on two classes of the hierarchy
C7_Witness ==
    /\ mode = "running"
    /\ Len(classes[cls].bases) = 2
    /\ \E k1, k2 \in Ancestors(classes, cls) :
            /\ k1 # k2
            /\ \E i \in 1..Len(classes[k1].dict) : classes[k1].dict[i].command = Name_a
            /\ \E i \in 1..Len(classes[k2].dict) : classes[k2].dict[i].command = Name_a
    /\ Cardinality({ i \in 1..Len(namespace) : namespace[i].command = Name_a }) = 1

(***************************************************************************)
(* Tokenizer properties                                                    *)
(***************************************************************************)
\* the positions <<i, j>> of s that hold a quoted segment: s[i] is a quote
\* character met outside quotes, s[j] is the next occurrence of the same
\* character, and the segment has a space or the end of s on both sides
QuotedSegments(s) ==
    { ij \in (1..Len(s)) \X (1..Len(s)) :
        LET i == ij[1]
            j == ij[2]
        IN  /\ i < j
            /\ s[i] \in QuoteChars
            /\ s[j] = s[i]
            /\ \A k \in (i + 1)..(j - 1) : s[k] # s[i]
            /\ (i = 1 \/ s[i - 1] = " ")
            /\ (j = Len(s) \/ s[j + 1] = " ")
            /\ feed_to(ArgumentParser_init, s, i - 1).quote = None }

\* the tokens finalized once the first k symbols of s, followed by the
\* synthetic newline when k exceeds the length of s, have been processed
TokensAfter(s, k) ==
    IF k <= Len(s)
    THEN feed_to(ArgumentParser_init, s, k).arguments
    ELSE process_token(feed(ArgumentParser_init, s), "\n").arguments

IsPrefix(a, b) == Len(a) <= Len(b) /\ SubSeq(b, 1, Len(a)) = a

\* C8: every quoted segment that is opened and closed by the same quote
\* character and has spaces (or the ends of the line) around it yields exactly
\* one token, equal to the text between the quotes, spaces and quotes of
\* the other style included, and empty when the segment is empty; the line
\* of test_call__ parses to its known output.
C8_QuotedSegmentOneToken ==
    calls = 1 =>
        LET s == Strip(line)
        IN  /\ \A ij \in QuotedSegments(s) :
                    LET before == TokensAfter(s, ij[1] - 1)
                        after  == TokensAfter(s, ij[2] + 1)
                        text   == SubSeq(s, ij[1] + 1, ij[2] - 1)
                    IN  /\ after = Append(before, text)
                        /\ IsPrefix(after, result)
            /\ (line = TestInput => result = KnownOutput)

\* C8 witness: the line of test_call__ has been parsed; it holds an empty
\* segment, one with a space and one with quotes of the other style
C8_Witness ==
    /\ calls = 1
    /\ line = TestInput
    /\ Cardinality(QuotedSegments(Strip(line))) = 3
    /\ Len(result) = 5

\* s with one more space put in front of position k
InsertSpace(s, k) == SubSeq(s, 1, k - 1) \o << " " >> \o SubSeq(s, k, Len(s))

\* C9: whitespace outside quotes never produces an empty token: a step that
\* appends an empty token is a space or the line end that comes right
\* after a quote character, and a leading space, a trailing space or a
\* doubled space outside quotes leaves the result as it is.
C9_NoEmptyTokenFromWhitespace ==
    calls = 1 =>
        LET s == Strip(line)
            sym == s \o << "\n" >>
        IN  /\ \A k \in 1..Len(sym) :
                    LET before == TokensAfter(s, k - 1)
                        after  == TokensAfter(s, k)
                    IN  (Len(after) > Len(before) /\ after[Len(after)] = << >>)
                            => /\ sym[k] \in {" ", "\n"}
                               /\ k > 1
                               /\ sym[k - 1] \in QuoteChars
            /\ result = TokensAfter(s, Len(sym))
            /\ parse(<< " " >> \o line) = result
            /\ parse(line \o << " " >>) = result
            /\ \A k \in 1..Len(s) :
                    (s[k] = " " /\ feed_to(ArgumentParser_init, s, k - 1).quote = None)
                        => parse(InsertSpace(s, k)) = result

\* C9 witness: a parsed line that starts with a space, ends with a space and
\* has two spaces in a row, and whose tokens are all non-empty
C9_Witness ==
    /\ calls = 1
    /\ Len(line) >= 3
    /\ line[1] = " "
    /\ line[Len(line)] = " "
    /\ \E k \in 1..(Len(line) - 1) : (line[k] = " " /\ line[k + 1] = " ")
    /\ result # << >>
    /\ \A t \in 1..Len(result) : result[t] # << >>

\* C10: a parse returns the same sequence whatever the same tokenizer has
\* parsed before: the tuple returned for a line is the tuple a new
\* tokenizer returns for it.
C10_ParseIndependentOfEarlierParses ==
    calls >= 1 => result = parse(line)

(***************************************************************************)
(* Help listing                                                            *)
(***************************************************************************)
\* the last iteration ran Mode.help with no command name
HelpListed(it) ==
    /\ it.type = "iteration"
    /\ it.ran = << Func_help.qualname >>
    /\ (it.arguments = << >> \/ it.arguments[1] = << >>)

\* C11: help with no argument prints the header, then the short help of
\* every namespace entry exactly once in ascending order of ordinal, then an
\* empty line; the built-in help and exit have the ordinals 998 and 999.
C11_HelpListsByOrdinal ==
    HelpListed(last) =>
        LET n == Len(namespace)
        IN  /\ Len(last.printed) = n + 2
            /\ last.printed[1] = Str_available
            /\ last.printed[n + 2] = << >>
            /\ \E f \in Permutations(1..n) :
                    /\ \A i \in 1..n :
                            last.printed[i + 1]
                                = short_help(namespace[f[i]], command_width, arguments_width)
                    /\ \A i, j \in 1..n :
                            i < j => namespace[f[i]].number <= namespace[f[j]].number
            /\ \A i \in 1..n :
                    /\ namespace[i].func = Func_help => namespace[i].number = 998
                    /\ namespace[i].func = Func_exit => namespace[i].number = 999

\* C11 witness: the listing of a namespace whose entries are not in ordinal
\* order and that holds both built-in commands
C11_Witness ==
    /\ HelpListed(last)
    /\ \E i, j \in 1..Len(namespace) :
            i < j /\ namespace[i].number > namespace[j].number
    /\ \E i, j \in 1..Len(namespace) :
            namespace[i].func = Func_help /\ namespace[j].func = Func_exit

(***************************************************************************)
(* The ends of the loop                                                    *)
(***************************************************************************)
\* C12: when input() finds the input source exhausted while the Mode is
\* running, the Mode terminates as it does for exit, and the end of input
\* does not reach the caller as an exception.
C12_EndOfInputTerminates ==
    last.type = "eof" => mode = "terminated"

\* the exceptions of input validation
InputErrors == {"IncorrectCommand", "IncorrectArguments"}

\* C13: the loop terminates with a normal return only through the command
\* exit: whatever else the body of another command raises is not caught
\* and leaves Mode.__call__.
C13_OnlyExitEndsLoop ==
    last.type = "iteration" =>
        /\ mode = "terminated" => last.command_name = Name_exit
        /\ ( /\ last.command_name # Name_exit
             /\ last.ran # << >>
             /\ last.raised \notin InputErrors \cup {"none"} ) => mode = "raised"

(***************************************************************************)
(* The prompt                                                              *)
(***************************************************************************)
\* the name a prompt shows for an instance
ShownName(dict) == IF dict.name.type = "str" THEN dict.name.value ELSE Str_unnamed

\* the instance has a truthy context
HasContext(dict) == dict.context.type = "str" /\ Len(dict.context.value) > 0

\* the last iteration ran the command of class 3 with the given body
RanBody(body) ==
    /\ last.type = "iteration"
    /\ last.ran = << Declarations(ModeId + 1)[body].func.qualname >>

CleanToken(t) ==
    /\ t # << >>
    /\ \A i \in 1..Len(t) : t[i] \notin {" ", "\n"} \cup QuoteChars

\* C15: when the line parsed is a sequence of clean tokens joined by single
\* spaces, the parse returns exactly that sequence, and parsing the result
\* joined by single spaces returns it again; 'a b c' gives (a, b, c).
C15_CleanTokensRoundTrip ==
    calls = 1 =>
        LET tokens == Split(line, " ")
        IN  /\ (\A i \in 1..Len(tokens) : CleanToken(tokens[i])) =>
                    /\ result = tokens
                    /\ parse(JoinSpace(result)) = result
            /\ line = CleanInput => result = << << "a" >>, << "b" >>, << "c" >> >>

\* the text has no occurrence of the character
Without(text, ch) == \A i \in 1..Len(text) : text[i] # ch

\* C16: the character that closes a quote finalizes the buffer as a token
\* at that moment: for a line that is a quoted segment directly followed by
\* plain text, or by a second quoted segment, the parse returns two tokens,
\* the text of the first segment and what follows it.
C16_ClosingQuoteFinalizesToken ==
    calls = 1 =>
        \A k \in 2..Len(line) :
            ( /\ line[1] \in QuoteChars
              /\ line[k] = line[1]
              /\ Without(SubSeq(line, 2, k - 1), line[1]) ) =>
                LET first == SubSeq(line, 2, k - 1)
                    rest  == SubSeq(line, k + 1, Len(line))
                IN  /\ (CleanToken(rest) /\ Without(rest, "\t")) => result = << first, rest >>
                    /\ ( /\ Len(rest) >= 2
                         /\ rest[1] \in QuoteChars
                         /\ rest[Len(rest)] = rest[1]
                         /\ Without(SubSeq(rest, 2, Len(rest) - 1), rest[1]) ) =>
                            result = << first, SubSeq(rest, 2, Len(rest) - 1) >>

\* the position in text of the quote character that is open at its end
OpenedAt(text) ==
    CHOOSE k \in 1..Len(text) :
        /\ feed_to(ArgumentParser_init, text, k - 1).quote = None
        /\ \A j \in k..Len(text) : feed_to(ArgumentParser_init, text, j).quote # None

\* C17: when the line ends while a quote is open, the trailing newline
\* flushes the buffer as the final token: the parse returns the tokens
\* finished before the quote opened, then one token that ends with all the
\* text after the opening quote.
C17_OpenQuoteFlushedAtEnd ==
    (calls = 1 /\ parser.quote # None) =>
        LET text   == Strip(line)
            k      == OpenedAt(text)
            opened == feed_to(ArgumentParser_init, text, k)
        IN  /\ text[k] = parser.quote
            /\ result = opened.arguments \o << opened.buffer \o SubSeq(text, k + 1, Len(text)) >>
            /\ parser.buffer = << >>

\* C17 witness: a token, then a quote that is never closed with the other
\* quote character after it
C17_Witness ==
    /\ calls = 1
    /\ parser.quote # None
    /\ Len(result) = 2
    /\ \E i \in 1..Len(result[2]) : result[2][i] \in QuoteChars

(***************************************************************************)
(* Frame of a run                                                          *)
(***************************************************************************)
\* C18: no step of a run of Mode.__call__ changes the ordinal allocation
\* state, the rendering widths or the Commandlets registered, and after
\* the namespace is built at startup no iteration changes it.
C18_RunKeepsRegistrationState ==
    [][ /\ RegState' = RegState
        /\ mode # "new" => namespace' = namespace ]_vars

\* C18 witness: the run of a class that registered commands of its own has
\* listed a namespace of three commands and goes on
C18_Witness ==
    /\ mode = "running"
    /\ HelpListed(last)
    /\ Len(namespace) = 3
    /\ namespace = build_namespace(classes, cls)
    /\ number_free > 0

(***************************************************************************)
(* Dispatch over a hierarchy                                               *)
(***************************************************************************)
\* the Commandlets of c and of its bases in the order of the walk: the
\* class itself, then the subtree of each base in declaration order
RECURSIVE WalkDicts(_, _)
RECURSIVE WalkBases(_, _, _)
WalkDicts(table, c) == table[c].dict \o WalkBases(table, table[c].bases, 1)

WalkBases(table, bases, i) ==
    IF i > Len(bases) THEN << >>
    ELSE WalkDicts(table, bases[i]) \o WalkBases(table, bases, i + 1)

\* class s declares a command under the name
Declares(table, s, name) ==
    \E i \in 1..Len(table[s].dict) : table[s].dict[i].command = name

\* the first declaration of the name that the walk meets
FirstDeclared(table, c, name) ==
    LET walk == WalkDicts(table, c)
    IN  walk[CHOOSE i \in 1..Len(walk) :
                /\ walk[i].command = name
                /\ \A j \in 1..(i - 1) : walk[j].command # name]

\* C19: the command that a typed name runs, and the command that help
\* describes, is the declaration the walk meets first; whenever a class
\* of the hierarchy redeclares a name of one of its ancestors, it is not
\* the ancestor's command that runs.
C19_SubclassRedeclarationWins ==
    last.type = "iteration" =>
        /\ last.ran # << >> =>
                last.ran = << FirstDeclared(classes, cls, last.command_name).func.qualname >>
        /\ ( /\ last.ran = << Func_help.qualname >>
             /\ last.arguments # << >>
             /\ \E c \in Ancestors(classes, cls) : Declares(classes, c, last.arguments[1]) ) =>
                last.printed[1] = long_help(FirstDeclared(classes, cls, last.arguments[1]))
        /\ \A s \in Ancestors(classes, cls) :
                \A t \in Ancestors(classes, s) \ {s} :
                    ( /\ last.ran # << >>
                      /\ Declares(classes, s, last.command_name)
                      /\ Declares(classes, t, last.command_name) ) =>
                        last.ran[1][1] # t

\* the parameters a callable declares besides its receiver
Declared(func) == func.co_argcount - 1

\* C20: when the typed name resolves to a command that declares p
\* parameters besides the receiver, d of them with defaults, the line runs
\* the body of that command, once, exactly when it carries p-d to p
\* argument tokens; with any other count nothing runs, the arity
\* diagnostic is printed and the loop goes on.
C20_DispatchArity ==
    ( /\ last.type = "iteration"
      /\ \E c \in Ancestors(classes, cls) : Declares(classes, c, last.command_name) ) =>
        LET func == FirstDeclared(classes, cls, last.command_name).func
            p    == Declared(func)
            d    == DefaultCount(func)
            n    == Len(last.arguments)
        IN  /\ (p - d <= n /\ n <= p) => last.ran = << func.qualname >>
            /\ (n < p - d \/ n > p) =>
                    /\ last.ran = << >>
                    /\ last.raised = "IncorrectArguments"
                    /\ Len(last.printed) = 1
                    /\ IsPrefix(Str_incorrect_arguments, last.printed[1])
                    /\ mode = "running"
            /\ Len(last.ran) <= 1

\* C20 witness: the command a(self, a, b='') has run on a line of two
\* argument tokens
C20_Witness ==
    /\ last.type = "iteration"
    /\ last.command_name = Name_a
    /\ Len(last.arguments) = 2
    /\ last.ran = << Declarations(ModeId + 1).a.func.qualname >>

====
